---- MODULE Spec2Model ----
(***************************************************************************)
(* sci-file-viewer (src/main.rs): the App state, the run_app event loop    *)
(* with its key handlers, the render pass as far as it writes App fields,  *)
(* and the pure helpers the handlers call.                                 *)
(*                                                                         *)
(* Strings that the code compares (entry names) are sequences of code      *)
(* points; a path is the sequence of its component names, the root being   *)
(* the empty sequence.  An Option is a sequence of length 0 or 1.          *)
(***************************************************************************)
EXTENDS Integers, Sequences, FiniteSets, TLC

VARIABLES
    fs,                    \* environment: the nodes that exist below the root
    home_dir,              \* environment: dirs::home_dir(), an Option<PathBuf>
    area_height,           \* environment: height of the main layout row
    current_directory,
    startup_directory,
    entries,
    use_nerd_fonts,
    selected_index,
    file_tree_scroll,
    file_content,
    scroll_offset,
    visible_height,
    current_file,
    show_chart,
    needs_resize,
    show_recent_files,
    recent_files,
    recent_files_selected,
    last_dir_file,         \* environment: the text of last_dir.txt, an Option
    file_text,             \* environment: the lines of the file /t, as characters
    chart_data,
    chart_bounds,          \* <<x_bounds, y_bounds>>, each <<lower, upper>>
    file_stats,            \* what the stats text reports, an Option
    downsample_data,       \* downsample_with_peaks: its data argument
    target_points,         \* downsample_with_peaks: its target_points argument
    display_data,          \* downsample_with_peaks: what it returned, an Option
    pc,                    \* run_app: "draw" (top of the loop), "read", "done"
    key                    \* run_app: the key code being handled, "none" otherwise

env_vars == <<fs, home_dir, area_height, last_dir_file, file_text>>

\* The frame of a downsample_with_peaks call.
call_vars == <<downsample_data, target_points, display_data>>

\* Every field of App that the model carries.
app_vars == <<current_directory, startup_directory, entries, use_nerd_fonts,
              selected_index, file_tree_scroll, file_content, scroll_offset,
              visible_height, current_file, show_chart, needs_resize,
              show_recent_files, recent_files, recent_files_selected,
              chart_data, chart_bounds, file_stats>>

vars == <<fs, home_dir, area_height, last_dir_file, current_directory, startup_directory,
          entries, use_nerd_fonts, selected_index, file_tree_scroll,
          file_content, scroll_offset, visible_height, current_file,
          show_chart, needs_resize, show_recent_files, recent_files,
          recent_files_selected, pc, key, file_text, chart_data,
          chart_bounds, file_stats,
          downsample_data, target_points, display_data>>

----------------------------------------------------------------------------
(* Bounds of the model *)

\* 'j' is taken only while scroll_offset is below this cap (the code's cap
\* is usize::MAX).
MaxScroll == 2

\* The main layout row is between MinAreaHeight and MaxAreaHeight rows high
\* (at least one visible row inside the borders).
MinAreaHeight == 3
MaxAreaHeight == 4

\* Number of distinct file paths of the registry specification.
NumRecentPaths == 11

\* Largest file_tree_scroll the scroll-adjustment specification starts from.
MaxTreeScroll == 7

\* Longest sample sequence and largest target_points handed to
\* downsample_with_peaks.
MaxSamples == 6
MaxTarget == 4

\* Longest line of the file /t, in pieces.
MaxPieces == 3

\* Significant bits of the model's floating-point numbers (f64 has 53), and
\* the most lines of a text of the chart-bounds specification.
Precision == 10
MaxBoundLines == 2

\* Longest sample sequence and largest target_points of the bucket
\* specification.
MaxLongSamples == 17
MaxLongTarget == 13

(* Program constants *)

\* recent_files.truncate(10)
RecentCap == 10

\* visible_height: 20 in App::new
InitialVisibleHeight == 20

\* area.height.saturating_sub(2): the two border rows of a panel
BorderRows == 2

\* The characters '/', '\n' and '\r' of the marker file's text
Slash == 47
LineFeed == 10
CarriageReturn == 13

\* The padding factor 0.05 is one part in PadDivisor; the model's
\* floating-point numbers count such parts (1.0 is PadDivisor of them).
PadDivisor == 20

AreaHeights == MinAreaHeight..MaxAreaHeight

----------------------------------------------------------------------------
(* Option, integer helpers *)

None == <<>>
Some(x) == <<x>>

Min(a, b) == IF a <= b THEN a ELSE b
Max(a, b) == IF a >= b THEN a ELSE b

\* usize::saturating_sub
saturating_sub(a, b) == IF a >= b THEN a - b ELSE 0

----------------------------------------------------------------------------
(* Paths and the file system *)

Root == <<>>

\* Path::parent
parent(p) == IF p = Root THEN None ELSE Some(SubSeq(p, 1, Len(p) - 1))

file_name(p) == p[Len(p)]

DotDot == <<46, 46>>           \* ".."

\* Path::display: the characters of an absolute path
RECURSIVE display(_)
display(p) ==
    IF p = Root THEN <<Slash>>
    ELSE (IF Len(p) = 1 THEN <<>> ELSE display(SubSeq(p, 1, Len(p) - 1)))
         \o <<Slash>> \o file_name(p)

\* The position of the first c of cs, Len(cs) + 1 when there is none
find(cs, c) ==
    IF \E i \in 1..Len(cs) : cs[i] = c
    THEN CHOOSE i \in 1..Len(cs) : cs[i] = c /\ \A j \in 1..(i - 1) : cs[j] # c
    ELSE Len(cs) + 1

\* The names a path is made of: what stands between the '/'s
RECURSIVE components(_)
components(cs) ==
    IF cs = <<>> THEN <<>>
    ELSE (IF find(cs, Slash) = 1 THEN <<>> ELSE <<SubSeq(cs, 1, find(cs, Slash) - 1)>>)
         \o components(SubSeq(cs, find(cs, Slash) + 1, Len(cs)))

\* PathBuf::from(line) for the line of an absolute path, or of a path
\* relative to the working directory, which is the root
path_from(line) == components(line)

\* BufRead::lines().next(): the text up to its first '\n', without the
\* '\r' in front of that; None for an empty text
first_line(text) ==
    LET end == find(text, LineFeed)
    IN  IF text = <<>> THEN None
        ELSE IF end <= Len(text) /\ end > 1 /\ text[end - 1] = CarriageReturn
        THEN Some(SubSeq(text, 1, end - 2))
        ELSE Some(SubSeq(text, 1, end - 1))

\* What writeln!(file, "{}", path.display()) writes (line 119)
marker_text(p) == display(p) \o <<LineFeed>>

\* What a write of `text` that may fail part-way leaves in the file
Prefixes(text) == { SubSeq(text, 1, k) : k \in 0..Len(text) }

\* The nodes the main specification's file system may hold: a directory
\* /Z/, a text file /a and an empty file /B.
pZ == << <<90>> >>
pa == << <<97>> >>
pB == << <<66>> >>

MainNodes == {pZ, pa, pB}

\* The nodes that appear and disappear while the application runs.
VolatileNodes == {pa}

\* The nodes of the listing specification: one directory level with names
\* that differ in case and in length.
\*   /b/  /C/  /a  /B  /ab
pb_dir == << <<98>> >>
ListDirs == { pb_dir, << <<67>> >> }
ListNodes == ListDirs \cup { pa, pB, << <<97, 98>> >> }

\* The nodes of the registry specification: the files /ra, /rb, ...
RecentNode(i) == << <<114, 96 + i>> >>
RecentNodes == { RecentNode(i) : i \in 1..NumRecentPaths }

\* The directory of the restart specification whose name holds a line
\* break: "a\nb"
pLines == << <<97, LineFeed, 98>> >>

DirNodes == {pZ, pLines} \cup ListDirs

\* Files whose bytes are not valid UTF-8: fs::read_to_string fails.
BinaryNodes == { RecentNode(2) }

\* The file /t of the chart specifications; its text is file_text.
pT == << <<116>> >>

\* content.lines() of each text file, a line being the sequence of its
\* characters (one-character strings); a file not named here has two lines.
FileText(p) ==
    IF p = pT THEN file_text
    ELSE IF p = pB THEN <<>>
    ELSE IF p = pa THEN << <<"1", " ", "2">>, <<"#", " ", "c">>, <<"3", " ", "4">> >>
    ELSE << <<"x">>, <<"y">> >>

\* String::from: the characters of a line as one string
RECURSIVE to_string(_)
to_string(cs) == IF cs = <<>> THEN "" ELSE Head(cs) \o to_string(Tail(cs))

\* content.lines().map(String::from) of each text file (line 222)
FileLines(p) == [i \in 1..Len(FileText(p)) |-> to_string(FileText(p)[i])]

\* A set of nodes is a file system when every node's parent directory exists.
IsFs(S) == \A n \in S : Len(n) > 1 =>
               /\ SubSeq(n, 1, Len(n) - 1) \in S
               /\ SubSeq(n, 1, Len(n) - 1) \in DirNodes

\* Path::is_dir
is_dir(p) == p = Root \/ (p \in fs /\ p \in DirNodes)

\* All orders in which a finite set can be enumerated.
RECURSIVE Orderings(_)
Orderings(S) ==
    IF S = {} THEN {<<>>}
    ELSE UNION {{<<x>> \o o : o \in Orderings(S \ {x})} : x \in S}

\* fs::read_dir(dir) mapped to FileEntry values (lines 154-163): every order
\* the OS may return the children in; None when the directory cannot be read.
read_dir(dir) ==
    IF is_dir(dir)
    THEN {Some([i \in 1..Len(o) |->
                   [name |-> file_name(o[i]), path |-> o[i], is_dir |-> is_dir(o[i])]]) :
              o \in Orderings({n \in fs : parent(n) = Some(dir)})}
    ELSE {None}

\* fs::read_to_string(path): the text's lines as characters, None on any
\* error.
read_to_string(p) ==
    IF p \in fs /\ p \notin DirNodes /\ p \notin BinaryNodes
    THEN Some(FileText(p))
    ELSE None

\* fs::read_to_string(path) followed by content.lines(): None on any error.
read_lines(p) ==
    IF p \in fs /\ p \notin DirNodes /\ p \notin BinaryNodes
    THEN Some(FileLines(p))
    ELSE None

----------------------------------------------------------------------------
(* Name comparison and the directory sort *)

LowerChar(c) == IF c >= 65 /\ c <= 90 THEN c + 32 ELSE c

\* str::to_lowercase on ASCII names
to_lowercase(s) == [i \in 1..Len(s) |-> LowerChar(s[i])]

\* Ord for String: lexicographic on the code units
str_cmp(a, b) ==
    LET n == Min(Len(a), Len(b))
        diff == {i \in 1..n : a[i] # b[i]}
    IN  IF diff = {}
        THEN IF Len(a) < Len(b) THEN "Less"
             ELSE IF Len(a) > Len(b) THEN "Greater" ELSE "Equal"
        ELSE LET k == CHOOSE i \in diff : \A j \in diff : i <= j
             IN  IF a[k] < b[k] THEN "Less" ELSE "Greater"

\* A sort that forgets the case folding.
entry_cmp_case_sensitive(a, b) ==
    IF a.is_dir /\ ~b.is_dir THEN "Less"
    ELSE IF ~a.is_dir /\ b.is_dir THEN "Greater"
    ELSE str_cmp(a.name, b.name)

\* The comparator of items.sort_by (lines 166-170)
entry_cmp(a, b) ==
    IF a.is_dir /\ ~b.is_dir THEN "Less"
    ELSE IF ~a.is_dir /\ b.is_dir THEN "Greater"
    ELSE str_cmp(to_lowercase(a.name), to_lowercase(b.name))

RECURSIVE insert_sorted(_, _)
insert_sorted(s, x) ==
    IF s = <<>> THEN <<x>>
    ELSE IF entry_cmp(x, Head(s)) = "Less" THEN <<x>> \o s
    ELSE <<Head(s)>> \o insert_sorted(Tail(s), x)

\* slice::sort_by: a stable sort
RECURSIVE sort_by(_)
sort_by(items) ==
    IF items = <<>> THEN <<>>
    ELSE insert_sorted(sort_by(SubSeq(items, 1, Len(items) - 1)), items[Len(items)])

\* A refresh that keeps the selection where the new listing allows it.
refresh_directory_keeping(dir, listing, selected, scroll) ==
    LET up == IF parent(dir) # None
              THEN <<[name |-> DotDot, path |-> parent(dir)[1], is_dir |-> TRUE]>>
              ELSE <<>>
        items == IF listing # None THEN sort_by(listing[1]) ELSE <<>>
        n == Len(up \o items)
    IN  [entries |-> up \o items,
         selected_index |-> Min(selected, saturating_sub(n, 1)),
         file_tree_scroll |-> Min(scroll, saturating_sub(n, 1))]

\* App::refresh_directory (lines 139-174) for the directory `dir` whose
\* read_dir gave `listing`, called with the given selected_index and
\* file_tree_scroll: the new entries, selected_index, file_tree_scroll.
refresh_directory(dir, listing, selected, scroll) ==
    LET up == IF parent(dir) # None
              THEN <<[name |-> DotDot, path |-> parent(dir)[1], is_dir |-> TRUE]>>
              ELSE <<>>
        items == IF listing # None THEN sort_by(listing[1]) ELSE <<>>
    IN  [entries |-> up \o items,
         selected_index |-> 0,
         file_tree_scroll |-> 0]

----------------------------------------------------------------------------
(* The recent-files registry and file loading *)

\* A registry that keeps the earlier occurrence of the path.
add_to_recent_files_no_retain(list, path) ==
    LET inserted == <<path>> \o list
    IN  SubSeq(inserted, 1, Min(Len(inserted), RecentCap))

\* A registry that inserts the path behind the present front.
add_to_recent_files_second(list, path) ==
    LET retained == SelectSeq(list, LAMBDA q : q # path)
        inserted == IF retained = <<>> THEN <<path>>
                    ELSE <<Head(retained), path>> \o Tail(retained)
    IN  SubSeq(inserted, 1, Min(Len(inserted), RecentCap))

\* App::add_to_recent_files (lines 191-198): retain, insert(0), truncate(10)
add_to_recent_files(list, path) ==
    LET retained == SelectSeq(list, LAMBDA q : q # path)
        inserted == <<path>> \o retained
    IN  SubSeq(inserted, 1, Min(Len(inserted), RecentCap))

\* The welcome text of App::new (lines 73-79)
WelcomeContent ==
    <<"Welcome to Scientific File Viewer!", "",
      "Select a file and press Enter to view its contents.", "",
      "Supported formats: .txt, .dat, .cif, .xyz, .pdb">>

\* file_content after open_file's match on read_to_string (lines 220-250)
\* (the placeholder's dash is written in ASCII here; only its being one line
\* matters to the scroll arithmetic)
loaded_content(path) ==
    LET r == read_lines(path)
    IN  IF r = None THEN <<"Binary file - no text content to display">>
        ELSE IF r[1] = <<>> THEN <<"(empty file)">>
        ELSE r[1]

----------------------------------------------------------------------------
(* Chart data: App::parse_chart_data (lines 293-354) *)

\* char::is_whitespace, on the characters the model's texts are made of
is_whitespace(c) == c \in {" ", "\t"}

\* str::trim (line 297)
RECURSIVE trim_start(_)
trim_start(s) ==
    IF s # <<>> /\ is_whitespace(Head(s)) THEN trim_start(Tail(s)) ELSE s

RECURSIVE trim_end(_)
trim_end(s) ==
    IF s # <<>> /\ is_whitespace(s[Len(s)])
    THEN trim_end(SubSeq(s, 1, Len(s) - 1))
    ELSE s

trim(s) == trim_end(trim_start(s))

\* str::split with the closure of line 306: the pieces between separators,
\* empty pieces included
RECURSIVE split(_)
split(s) ==
    IF s = <<>> THEN << <<>> >>
    ELSE LET r == split(Tail(s))
         IN  IF is_whitespace(Head(s)) \/ Head(s) = ","
             THEN << <<>> >> \o r
             ELSE << <<Head(s)>> \o Head(r) >> \o Tail(r)

Digits == <<"0", "1", "2", "3", "4", "5", "6", "7", "8", "9">>
IsDigit(c) == \E d \in 1..Len(Digits) : Digits[d] = c
DigitValue(c) == (CHOOSE d \in 1..Len(Digits) : Digits[d] = c) - 1

RECURSIVE decimal(_)
decimal(tok) ==
    IF tok = <<>> THEN 0
    ELSE decimal(SubSeq(tok, 1, Len(tok) - 1)) * 10 + DigitValue(tok[Len(tok)])

\* str::parse::<f64> (line 312) on the tokens the model's texts can hold: a
\* string of digits is a finite number, the words inf and NaN parse to
\* values that are not finite, anything else is an error (None).
parse_f64(tok) ==
    IF tok # <<>> /\ \A i \in 1..Len(tok) : IsDigit(tok[i])
    THEN Some([is_finite |-> TRUE, value |-> decimal(tok)])
    ELSE IF tok \in { <<"i", "n", "f">>, <<"N", "a", "N">> }
    THEN Some([is_finite |-> FALSE, value |-> 0])
    ELSE None

\* The body of the loop over the lines (lines 297-317): what one line
\* pushes onto `data`, no sample or one.
parse_line(line) ==
    LET t == trim(line)
    IN  IF t = <<>> \/ Head(t) = "#" \/ Head(t) = ";" THEN <<>>
        ELSE LET parts == SelectSeq(split(t), LAMBDA piece : piece # <<>>)
             IN  IF Len(parts) >= 2
                 THEN LET x == parse_f64(parts[1])
                          y == parse_f64(parts[2])
                      IN  IF x # None /\ y # None /\ x[1].is_finite /\ y[1].is_finite
                          THEN << <<x[1].value, y[1].value>> >>
                          ELSE <<>>
                 ELSE <<>>

\* A loop that stops at the first line it rejects.
RECURSIVE parse_lines_abort(_)
parse_lines_abort(content) ==
    IF content = <<>> \/ parse_line(Head(content)) = <<>> THEN <<>>
    ELSE parse_line(Head(content)) \o parse_lines_abort(Tail(content))

\* The loop of lines 296-318: `data` when every line has been visited.
RECURSIVE parse_lines(_)
parse_lines(content) ==
    IF content = <<>> THEN <<>>
    ELSE parse_line(Head(content)) \o parse_lines(Tail(content))

\* App::parse_chart_data (lines 293-354): chart_data afterwards, `old`
\* being chart_data before.
parse_chart_data(content, old) ==
    LET data == parse_lines(content)
    IN  IF Len(data) >= 2 THEN data ELSE old

----------------------------------------------------------------------------
(* f64 arithmetic and the chart bounds (lines 321-353).  An f64 is modelled *)
(* as an integer number of twentieths that is rounded, after every          *)
(* operation, to Precision significant bits: to nearest, ties to even.      *)

Abs(x) == IF x < 0 THEN -x ELSE x

\* The position of the highest set bit of a >= 1
RECURSIVE Log2(_)
Log2(a) == IF a <= 1 THEN 0 ELSE 1 + Log2(a \div 2)

\* a / d for a >= 0, to the nearest integer, ties to even
RoundDiv(a, d) ==
    LET down == a \div d
        r == a % d
    IN  IF 2 * r < d THEN down
        ELSE IF 2 * r > d THEN down + 1
        ELSE IF down % 2 = 0 THEN down ELSE down + 1

\* The rounding of an exact result to the nearest representable number
fl(x) ==
    LET a == Abs(x)
    IN  IF a < 2 ^ Precision THEN x
        ELSE LET q == 2 ^ (Log2(a) - Precision + 1)
                 m == RoundDiv(a, q) * q
             IN  IF x < 0 THEN -m ELSE m

\* The f64 of a parsed decimal integer
to_f64(v) == fl(v * PadDivisor)

\* fold(f64::INFINITY, f64::min) and fold(f64::NEG_INFINITY, f64::max)
\* (lines 323-333) over a non-empty sequence
fold_min(vs) == CHOOSE v \in {vs[i] : i \in 1..Len(vs)} : \A i \in 1..Len(vs) : v <= vs[i]
fold_max(vs) == CHOOSE v \in {vs[i] : i \in 1..Len(vs)} : \A i \in 1..Len(vs) : v >= vs[i]

\* Bounds of one axis that always leave the padding formula in charge.
axis_bounds_padding_only(vs) ==
    LET lo == fold_min(vs)
        hi == fold_max(vs)
        padding == fl(RoundDiv(Abs(fl(hi - lo)), PadDivisor))
    IN  <<fl(lo - padding), fl(hi + padding)>>

\* x_bounds / y_bounds (lines 336-349) of the f64 values of one axis
axis_bounds(vs) ==
    LET lo == fold_min(vs)
        hi == fold_max(vs)
        padding == fl(RoundDiv(Abs(fl(hi - lo)), PadDivisor))
    IN  IF hi = lo
        THEN <<fl(lo - PadDivisor), fl(hi + PadDivisor)>>
        ELSE <<fl(lo - padding), fl(hi + padding)>>

\* chart_bounds in App::new (line 89): ([0.0, 1.0], [0.0, 1.0])
InitialChartBounds == << <<0, PadDivisor>>, <<0, PadDivisor>> >>

\* chart_bounds after App::parse_chart_data (lines 321-351), `old` being
\* chart_bounds before.
parse_chart_bounds(content, old) ==
    LET data == parse_lines(content)
    IN  IF Len(data) >= 2
        THEN << axis_bounds([i \in 1..Len(data) |-> to_f64(data[i][1])]),
                axis_bounds([i \in 1..Len(data) |-> to_f64(data[i][2])]) >>
        ELSE old

\* chart_bounds after open_file: parse_chart_data runs in the Ok arm only.
loaded_chart_bounds(path, old) ==
    LET r == read_to_string(path)
    IN  IF r = None THEN old ELSE parse_chart_bounds(r[1], old)

----------------------------------------------------------------------------
(* File metadata and the stats text (lines 210-249) *)

RECURSIVE text_bytes(_)
text_bytes(content) ==
    IF content = <<>> THEN 0
    ELSE Len(Head(content)) + 1 + text_bytes(Tail(content))

\* fs::metadata(path).map(|m| m.len()).unwrap_or(0) (line 211); a binary
\* file holds one byte.
file_size(path) ==
    IF path \notin fs THEN 0
    ELSE IF path \in BinaryNodes \/ path \in DirNodes THEN 1
    ELSE text_bytes(FileText(path))

\* App::get_file_dates (lines 271-289): the file's times, the epoch when
\* the metadata cannot be read.
get_file_dates(path) ==
    IF path \in fs THEN <<"created", "modified">>
    ELSE <<"1970-01-01 00:00:00", "1970-01-01 00:00:00">>

\* file_stats after open_file (lines 212-218, 231-242, 248): the size and
\* the dates always, the line count and the point count where the text
\* names them.
loaded_file_stats(path, content, data) ==
    IF read_to_string(path) = None
    THEN Some([size |-> file_size(path), dates |-> get_file_dates(path),
               lines |-> None, points |-> None])
    ELSE Some([size |-> file_size(path), dates |-> get_file_dates(path),
               lines |-> Some(Len(content)),
               points |-> IF data # <<>> THEN Some(Len(data)) ELSE None])

----------------------------------------------------------------------------
(* App::open_file *)

\* An open that leaves the previous file's samples in place.
clear_keeping(v) == v

\* Vec::clear (line 205)
clear(v) == <<>>

\* chart_data after open_file (lines 205, 220-228, 244), `old` being
\* chart_data before.
loaded_chart_data(path, old) ==
    LET r == read_to_string(path)
    IN  IF r = None THEN clear(old) ELSE parse_chart_data(r[1], clear(old))

\* An open that shows an empty file as no lines at all.
open_file_no_placeholder(path) ==
    /\ current_file' = Some(path)
    /\ scroll_offset' = 0
    /\ needs_resize' = TRUE
    /\ recent_files' = add_to_recent_files(recent_files, path)
    /\ file_content' = IF read_lines(path) = None THEN loaded_content(path)
                       ELSE read_lines(path)[1]
    /\ chart_data' = loaded_chart_data(path, chart_data)
    /\ chart_bounds' = loaded_chart_bounds(path, chart_bounds)
    /\ file_stats' = loaded_file_stats(path, file_content', chart_data')

\* App::open_file (lines 201-251), the fields the model carries
open_file(path) ==
    /\ current_file' = Some(path)
    /\ scroll_offset' = 0
    /\ needs_resize' = TRUE
    /\ recent_files' = add_to_recent_files(recent_files, path)
    /\ file_content' = loaded_content(path)
    /\ chart_data' = loaded_chart_data(path, chart_data)
    /\ chart_bounds' = loaded_chart_bounds(path, chart_bounds)
    /\ file_stats' = loaded_file_stats(path, file_content', chart_data')

----------------------------------------------------------------------------
(* App::downsample_with_peaks (lines 357-414).  A sample is <<x, y>>; the   *)
(* indices are the code's, from 0, so data[j] of the code is data[j + 1].   *)

\* The f64 values of the bucket arithmetic (lines 368-372), in IEEE 754
\* binary64 with round to nearest, ties to even.  A value is
\* [bits, scale]: the binary digits of an integer, most significant first,
\* and the number of them that stand behind the binary point.
MantissaBits == 53

\* The binary digits of a natural number, none for 0
RECURSIVE to_bits(_)
to_bits(v) == IF v = 0 THEN <<>> ELSE to_bits(v \div 2) \o <<v % 2>>

RECURSIVE from_bits(_)
from_bits(bits) ==
    IF bits = <<>> THEN 0
    ELSE 2 * from_bits(SubSeq(bits, 1, Len(bits) - 1)) + bits[Len(bits)]

\* The position of the first 1 of bits from position j on, Len(bits) + 1
\* when there is none
RECURSIVE first_one(_, _)
first_one(bits, j) ==
    IF j > Len(bits) \/ bits[j] = 1 THEN j ELSE first_one(bits, j + 1)

\* bits without its leading 0s
strip_zeros(bits) == SubSeq(bits, first_one(bits, 1), Len(bits))

\* bits with leading 0s up to the width w
pad_zeros(bits, w) == [j \in 1..(w - Len(bits)) |-> 0] \o bits

\* The position of the last 0 of the first j digits of bits, 0 when there
\* is none
RECURSIVE last_zero(_, _)
last_zero(bits, j) ==
    IF j = 0 \/ bits[j] = 0 THEN j ELSE last_zero(bits, j - 1)

\* bits with the 0 at position `last` (none when last = 0) turned into 1
\* and every digit behind it into 0
carry_into(bits, last) ==
    (IF last = 0 THEN <<1>> ELSE SubSeq(bits, 1, last - 1) \o <<1>>)
    \o [j \in 1..(Len(bits) - last) |-> 0]

\* bits + 1
increment(bits) == carry_into(bits, last_zero(bits, Len(bits)))

\* The digits behind the first MantissaBits digits of b are more than half
\* a unit of the last place, or half a unit with the last place odd.
rounds_up(b) ==
    /\ b[MantissaBits + 1] = 1
    /\ \/ b[MantissaBits] = 1
       \/ \E j \in (MantissaBits + 2)..Len(b) : b[j] = 1

\* The nearest value of MantissaBits significant digits to the digits b
\* (none of them a leading 0), ties to even
round_bits(b, scale) ==
    IF Len(b) <= MantissaBits THEN [bits |-> b, scale |-> scale]
    ELSE [bits |-> IF rounds_up(b) THEN increment(SubSeq(b, 1, MantissaBits))
                   ELSE SubSeq(b, 1, MantissaBits),
          scale |-> scale - (Len(b) - MantissaBits)]

\* The nearest f64 to x
round_f64(x) == round_bits(strip_zeros(x.bits), x.scale)

\* count digits of rem / k behind the binary point (rem < k), eight digits
\* of the long division at a time, then one more digit that is 1 when the
\* quotient goes on
RECURSIVE frac_bits(_, _, _)
frac_bits(rem, k, count) ==
    IF count = 0 THEN <<IF rem # 0 THEN 1 ELSE 0>>
    ELSE IF count < 8
    THEN pad_zeros(to_bits((rem * 2^count) \div k), count)
         \o frac_bits((rem * 2^count) % k, k, 0)
    ELSE pad_zeros(to_bits((rem * 256) \div k), 8)
         \o frac_bits((rem * 256) % k, k, count - 8)

\* m as f64 / k as f64 for integers m, k >= 1 (line 368): the quotient
\* has fewer 0s behind the binary point than k has digits, so the digits
\* taken hold MantissaBits + 1 significant ones
div_f64(m, k) ==
    LET count == MantissaBits + 1 + Len(to_bits(k))
    IN  round_f64([bits |-> to_bits(m \div k) \o frac_bits(m % k, k, count),
                   scale |-> count + 1])

RECURSIVE mul_bits(_, _, _, _)

\* The digits of (the first j - w digits of bits) * i + (v \div 2^w),
\* then the last w digits of v
mul_digits(bits, j, i, w, v) ==
    mul_bits(bits, j - w, i, v \div 2^w) \o pad_zeros(to_bits(v % 2^w), w)

\* The digits of (the first j digits of bits) * i + carry, for a small
\* natural number i, eight digits at a time
mul_bits(bits, j, i, carry) ==
    IF j = 0 THEN to_bits(carry)
    ELSE IF j < 8
    THEN mul_digits(bits, j, i, j, from_bits(SubSeq(bits, 1, j)) * i + carry)
    ELSE mul_digits(bits, j, i, 8, from_bits(SubSeq(bits, j - 7, j)) * i + carry)

\* i as f64 * x (lines 371-372)
mul_f64(i, x) ==
    round_f64([bits |-> mul_bits(x.bits, Len(x.bits), i, 0), scale |-> x.scale])

\* 1.0 + x for x >= 0 with scale >= 0 (lines 371-372)
one_plus_f64(x) ==
    LET len == Len(x.bits)
        whole == IF len > x.scale THEN SubSeq(x.bits, 1, len - x.scale) ELSE <<>>
        frac == IF len > x.scale THEN SubSeq(x.bits, len - x.scale + 1, len)
                ELSE [j \in 1..(x.scale - len) |-> 0] \o x.bits
    IN  round_f64([bits |-> increment(whole) \o frac, scale |-> x.scale])

\* x as usize for 0 <= x < 2^31: the digits before the binary point
as_usize(x) ==
    IF Len(x.bits) > x.scale
    THEN from_bits(SubSeq(x.bits, 1, Len(x.bits) - x.scale))
    ELSE 0

\* A bucket size that divides the wrong way round.
bucket_size_inverted(n, target) == div_f64(target - 2, n - 2)

\* bucket_size (line 368)
bucket_size(n, target) == div_f64(n - 2, target - 2)

\* (1.0 + i as f64 * bucket_size) as usize (lines 371 and 372), `size`
\* being bucket_size
bucket_edge(i, size) == as_usize(one_plus_f64(mul_f64(i, size)))

\* `start` of bucket i (line 371)
bucket_start(i, size) == bucket_edge(i - 1, size)

\* `end` of bucket i (lines 372-373)
bucket_end(i, n, size) == Min(bucket_edge(i, size), n - 1)

\* A scan in which a later sample of equal y replaces the earlier one.
RECURSIVE scan_last_wins(_, _, _, _)
scan_last_wins(data, j, end, best) ==
    IF j >= end THEN best
    ELSE LET y == data[j + 1][2]
             lo == IF y <= data[best.min_idx + 1][2] THEN j ELSE best.min_idx
             hi == IF y >= data[best.max_idx + 1][2] THEN j ELSE best.max_idx
         IN  scan_last_wins(data, j + 1, end, [min_idx |-> lo, max_idx |-> hi])

\* The scan of lines 385-394 from index j on, [min_idx, max_idx] so far
RECURSIVE scan(_, _, _, _)
scan(data, j, end, best) ==
    IF j >= end THEN best
    ELSE LET y == data[j + 1][2]
             lo == IF y < data[best.min_idx + 1][2] THEN j ELSE best.min_idx
             hi == IF y > data[best.max_idx + 1][2] THEN j ELSE best.max_idx
         IN  scan(data, j + 1, end, [min_idx |-> lo, max_idx |-> hi])

\* min_idx after the loop of lines 380-395
min_idx(data, start, end) ==
    scan(data, start, end, [min_idx |-> start, max_idx |-> start]).min_idx

\* max_idx after the loop of lines 380-395
max_idx(data, start, end) ==
    scan(data, start, end, [min_idx |-> start, max_idx |-> start]).max_idx

\* A bucket that always emits its maximum before its minimum.
bucket_points_max_first(data, start, end) ==
    IF start >= end THEN <<>>
    ELSE LET lo == min_idx(data, start, end)
             hi == max_idx(data, start, end)
         IN  IF lo = hi THEN <<data[hi + 1]>> ELSE <<data[hi + 1], data[lo + 1]>>

\* What one iteration of the loop pushes (lines 376-406)
bucket_points(data, start, end) ==
    IF start >= end THEN <<>>
    ELSE LET lo == min_idx(data, start, end)
             hi == max_idx(data, start, end)
         IN  IF lo < hi THEN <<data[lo + 1], data[hi + 1]>>
             ELSE IF lo # hi THEN <<data[hi + 1], data[lo + 1]>>
             ELSE <<data[hi + 1]>>

\* The loop `for i in 1..(target_points - 1)` (lines 370-408) from i on
RECURSIVE buckets_from(_, _, _, _)
buckets_from(data, target, size, i) ==
    IF i > target - 2 THEN <<>>
    ELSE bucket_points(data, bucket_start(i, size), bucket_end(i, Len(data), size))
         \o buckets_from(data, target, size, i + 1)

\* A reduction that keeps the two end points only.
downsample_ends_only(data, target) ==
    IF Len(data) <= 2 THEN data ELSE <<data[1], data[Len(data)]>>

\* App::downsample_with_peaks (lines 357-414), for target_points >= 2 or
\* data.len() <= target_points (target_points - 2 does not underflow).
downsample_with_peaks(data, target) ==
    IF Len(data) <= target THEN data
    ELSE <<data[1]>>
         \o buckets_from(data, target, bucket_size(Len(data), target), 1)
         \o <<data[Len(data)]>>

----------------------------------------------------------------------------
(* The render pass *)

\* A scroll adjustment that is one row off when the selection is below.
adjust_tree_scroll_off_by_one(selected, scroll, height) ==
    IF selected < scroll THEN selected
    ELSE IF selected >= scroll + height THEN saturating_sub(selected, height)
    ELSE scroll

\* render_file_tree (lines 637-641): the new file_tree_scroll.  height >= 1
\* here, so visible_height - 1 does not underflow.
adjust_tree_scroll(selected, scroll, height) ==
    IF selected < scroll THEN selected
    ELSE IF selected >= scroll + height THEN saturating_sub(selected, height - 1)
    ELSE scroll

\* Top of the loop (lines 450-455): the clear on needs_resize, then ui():
\* render_file_tree adjusts file_tree_scroll, render_content_viewer stores
\* visible_height.  The loop then blocks in event::read().
Render ==
    /\ pc = "draw"
    /\ needs_resize' = FALSE
    /\ file_tree_scroll' = adjust_tree_scroll(selected_index, file_tree_scroll,
                                              saturating_sub(area_height, BorderRows))
    /\ visible_height' = saturating_sub(area_height, BorderRows)
    /\ pc' = "read"
    /\ key' = "none"
    /\ UNCHANGED <<env_vars, current_directory, startup_directory, entries,
                   use_nerd_fonts, selected_index, file_content, scroll_offset,
                   current_file, show_chart, show_recent_files, recent_files,
                   recent_files_selected, chart_data, chart_bounds,
                   file_stats, call_vars>>

----------------------------------------------------------------------------
(* Events *)

\* event::read() returned Event::Key with this code; the handler has run and
\* the loop is back at its top.
Handled(k) ==
    /\ pc = "read"
    /\ key' = k
    /\ pc' = "draw"
    /\ UNCHANGED <<env_vars, call_vars>>

\* An event that is not a key (resize, mouse, focus): line 457 skips it and
\* the loop renders again, with the terminal's new height.
NonKeyEvent ==
    /\ pc = "read"
    /\ \E h \in AreaHeights : area_height' = h
    /\ pc' = "draw"
    /\ UNCHANGED <<fs, home_dir, last_dir_file, file_text, key, app_vars, call_vars>>

\* The file system changes under the application: a node appears (its
\* parent directory exists) or disappears (with everything below it).
FsChange ==
    /\ pc = "read"
    /\ \E n \in VolatileNodes :
          \/ /\ n \in fs
             /\ fs' = {m \in fs : SubSeq(m, 1, Min(Len(m), Len(n))) # n}
          \/ /\ n \notin fs
             /\ IsFs(fs \cup {n})
             /\ fs' = fs \cup {n}
    /\ UNCHANGED <<home_dir, area_height, last_dir_file, file_text, pc, key,
                   app_vars, call_vars>>

(* Popup mode (lines 459-492) *)

\* A popup whose 'q' also ends the loop.
PopupCloseAndQuit ==
    /\ show_recent_files
    /\ pc = "read"
    /\ \E k \in {"Esc", "q", "h"} :
          /\ key' = k
          /\ pc' = IF k = "q" THEN "done" ELSE "draw"
    /\ show_recent_files' = FALSE
    /\ UNCHANGED <<env_vars, call_vars, current_directory, startup_directory,
                   entries, use_nerd_fonts, selected_index, file_tree_scroll,
                   file_content, scroll_offset, visible_height, current_file,
                   show_chart, needs_resize, recent_files, recent_files_selected,
                   chart_data, chart_bounds,
                   file_stats>>

PopupClose ==
    /\ show_recent_files
    /\ \E k \in {"Esc", "q", "h"} : Handled(k)
    /\ show_recent_files' = FALSE
    /\ UNCHANGED <<current_directory, startup_directory, entries, use_nerd_fonts,
                   selected_index, file_tree_scroll, file_content, scroll_offset,
                   visible_height, current_file, show_chart, needs_resize,
                   recent_files, recent_files_selected, chart_data, chart_bounds,
                   file_stats>>

\* A popup whose Up stops at the first entry.
PopupUpClamped ==
    /\ show_recent_files
    /\ Handled("Up")
    /\ recent_files_selected' = saturating_sub(recent_files_selected, 1)
    /\ UNCHANGED <<current_directory, startup_directory, entries, use_nerd_fonts,
                   selected_index, file_tree_scroll, file_content, scroll_offset,
                   visible_height, current_file, show_chart, needs_resize,
                   show_recent_files, recent_files, chart_data, chart_bounds,
                   file_stats>>

PopupUp ==
    /\ show_recent_files
    /\ Handled("Up")
    /\ recent_files_selected' =
          IF recent_files = <<>> THEN recent_files_selected
          ELSE IF recent_files_selected >= 1 THEN recent_files_selected - 1
          ELSE Len(recent_files) - 1
    /\ UNCHANGED <<current_directory, startup_directory, entries, use_nerd_fonts,
                   selected_index, file_tree_scroll, file_content, scroll_offset,
                   visible_height, current_file, show_chart, needs_resize,
                   show_recent_files, recent_files, chart_data, chart_bounds,
                   file_stats>>

PopupDown ==
    /\ show_recent_files
    /\ Handled("Down")
    /\ recent_files_selected' =
          IF recent_files = <<>> THEN recent_files_selected
          ELSE (recent_files_selected + 1) % Len(recent_files)
    /\ UNCHANGED <<current_directory, startup_directory, entries, use_nerd_fonts,
                   selected_index, file_tree_scroll, file_content, scroll_offset,
                   visible_height, current_file, show_chart, needs_resize,
                   show_recent_files, recent_files, chart_data, chart_bounds,
                   file_stats>>

\* A popup that stays open after Enter.
PopupEnterStaysOpen ==
    /\ show_recent_files
    /\ Handled("Enter")
    /\ IF recent_files # <<>> /\ recent_files_selected < Len(recent_files)
       THEN open_file(recent_files[recent_files_selected + 1])
       ELSE UNCHANGED <<current_file, scroll_offset, needs_resize, recent_files,
                        file_content, chart_data, chart_bounds,
                   file_stats>>
    /\ UNCHANGED <<current_directory, startup_directory, entries, use_nerd_fonts,
                   selected_index, file_tree_scroll, visible_height, show_chart,
                   show_recent_files, recent_files_selected>>

PopupEnter ==
    /\ show_recent_files
    /\ Handled("Enter")
    /\ IF recent_files # <<>> /\ recent_files_selected < Len(recent_files)
       THEN /\ show_recent_files' = FALSE
            /\ open_file(recent_files[recent_files_selected + 1])
       ELSE UNCHANGED <<show_recent_files, current_file, scroll_offset,
                        needs_resize, recent_files, file_content, chart_data, chart_bounds,
                   file_stats>>
    /\ UNCHANGED <<current_directory, startup_directory, entries, use_nerd_fonts,
                   selected_index, file_tree_scroll, visible_height, show_chart,
                   recent_files_selected>>

\* The keys the popup's match handles itself; every other key reaches the
\* main match (the `_ => {}` arm of line 490 does not `continue`).
PopupKeys == {"Esc", "q", "h", "Up", "Down", "Enter"}

\* The main match (lines 494-583) is reached with this key.
Dispatched(k) == Handled(k) /\ (show_recent_files => k \notin PopupKeys)

(* Normal mode: the main match (lines 494-583) *)

tree_vars == <<current_directory, entries, selected_index, file_tree_scroll>>
file_vars == <<file_content, current_file, recent_files, chart_data,
               chart_bounds, file_stats>>
flag_vars == <<use_nerd_fonts, show_chart, show_recent_files, recent_files_selected>>

\* current_directory = dir; refresh_directory() (as go_startup, go_home,
\* select_entry and Backspace do)
Navigate(dir) ==
    /\ current_directory' = dir
    /\ \E listing \in read_dir(dir) :
          LET r == refresh_directory(dir, listing, selected_index, file_tree_scroll)
          IN  /\ entries' = r.entries
              /\ selected_index' = r.selected_index
              /\ file_tree_scroll' = r.file_tree_scroll

\* A 'q' that saves the directory and goes on.
KeyQuitGoesOn ==
    /\ pc = "read"
    /\ ~show_recent_files
    /\ key' = "q"
    /\ pc' = "draw"
    /\ \/ \E text \in Prefixes(marker_text(current_directory)) :
             last_dir_file' = Some(text)
       \/ UNCHANGED last_dir_file
    /\ UNCHANGED <<fs, home_dir, area_height, file_text, app_vars, call_vars>>

\* 'q' (lines 495-498): save_last_directory (lines 113-122), then return.
\* Every failure is ignored: the file is not created (or there is no config
\* directory) and stays what it was, or File::create has emptied it and the
\* write stops part-way.
KeyQuit ==
    /\ pc = "read"
    /\ ~show_recent_files
    /\ key' = "q"
    /\ pc' = "done"
    /\ \/ \E text \in Prefixes(marker_text(current_directory)) :
             last_dir_file' = Some(text)
       \/ UNCHANGED last_dir_file
    /\ UNCHANGED <<fs, home_dir, area_height, file_text, app_vars, call_vars>>

\* The selection after Up (lines 500-502)
select_up(selected) ==
    IF selected > 0 THEN selected - 1 ELSE selected

\* A Down that stops one entry late.
select_down_past_end(selected, len) ==
    IF selected < len THEN selected + 1 ELSE selected

\* The selection after Down (lines 505-507)
select_down(selected, len) ==
    IF selected < saturating_sub(len, 1) THEN selected + 1 ELSE selected

\* Up (lines 499-503)
KeyUp ==
    /\ Dispatched("Up")
    /\ selected_index' = select_up(selected_index)
    /\ UNCHANGED <<current_directory, entries, file_tree_scroll, file_vars,
                   flag_vars, startup_directory, visible_height, scroll_offset,
                   needs_resize>>

\* Down (lines 504-508)
KeyDown ==
    /\ Dispatched("Down")
    /\ selected_index' = select_down(selected_index, Len(entries))
    /\ UNCHANGED <<current_directory, entries, file_tree_scroll, file_vars,
                   flag_vars, startup_directory, visible_height, scroll_offset,
                   needs_resize>>

\* Enter (lines 509-511): App::select_entry (lines 177-188)
KeyEnter ==
    /\ Dispatched("Enter")
    /\ IF selected_index < Len(entries)
       THEN IF entries[selected_index + 1].is_dir
            THEN /\ Navigate(entries[selected_index + 1].path)
                 /\ UNCHANGED <<file_vars, scroll_offset, needs_resize>>
            ELSE /\ open_file(entries[selected_index + 1].path)
                 /\ UNCHANGED tree_vars
       ELSE UNCHANGED <<tree_vars, file_vars, scroll_offset, needs_resize>>
    /\ UNCHANGED <<flag_vars, startup_directory, visible_height>>

\* Backspace (lines 512-518)
KeyBackspace ==
    /\ Dispatched("Backspace")
    /\ IF parent(current_directory) # None
       THEN Navigate(parent(current_directory)[1])
       ELSE UNCHANGED tree_vars
    /\ UNCHANGED <<file_vars, flag_vars, startup_directory, visible_height,
                   scroll_offset, needs_resize>>

\* 'j' (lines 520-526); usize::MAX stands beyond MaxScroll
KeyJ ==
    /\ Dispatched("j")
    /\ scroll_offset < MaxScroll
    /\ scroll_offset' = scroll_offset + 1
    /\ needs_resize' = (needs_resize \/ scroll_offset' # scroll_offset)
    /\ UNCHANGED <<tree_vars, file_vars, flag_vars, startup_directory,
                   visible_height>>

\* 'k' (lines 527-533)
KeyK ==
    /\ Dispatched("k")
    /\ scroll_offset' = saturating_sub(scroll_offset, 1)
    /\ needs_resize' = (needs_resize \/ scroll_offset' # scroll_offset)
    /\ UNCHANGED <<tree_vars, file_vars, flag_vars, startup_directory,
                   visible_height>>

\* 'u' | PageUp (lines 534-538)
KeyPageUp ==
    /\ \E k \in {"u", "PageUp"} : Dispatched(k)
    /\ scroll_offset' = saturating_sub(scroll_offset, visible_height)
    /\ needs_resize' = TRUE
    /\ UNCHANGED <<tree_vars, file_vars, flag_vars, startup_directory,
                   visible_height>>

\* 'd' | PageDown (lines 539-544)
KeyPageDown ==
    /\ \E k \in {"d", "PageDown"} : Dispatched(k)
    /\ LET max_scroll == saturating_sub(Len(file_content), visible_height)
       IN  scroll_offset' = Min(scroll_offset + visible_height, max_scroll)
    /\ needs_resize' = TRUE
    /\ UNCHANGED <<tree_vars, file_vars, flag_vars, startup_directory,
                   visible_height>>

\* Home (lines 545-549)
KeyHome ==
    /\ Dispatched("Home")
    /\ scroll_offset' = 0
    /\ needs_resize' = TRUE
    /\ UNCHANGED <<tree_vars, file_vars, flag_vars, startup_directory,
                   visible_height>>

\* End (lines 550-554)
KeyEnd ==
    /\ Dispatched("End")
    /\ scroll_offset' = saturating_sub(Len(file_content), visible_height)
    /\ needs_resize' = TRUE
    /\ UNCHANGED <<tree_vars, file_vars, flag_vars, startup_directory,
                   visible_height>>

\* '.' (lines 556-559): App::go_startup (lines 133-136)
KeyDot ==
    /\ Dispatched(".")
    /\ Navigate(startup_directory)
    /\ UNCHANGED <<file_vars, flag_vars, startup_directory, visible_height,
                   scroll_offset, needs_resize>>

\* '~' (lines 560-563): App::go_home (lines 125-130)
KeyTilde ==
    /\ Dispatched("~")
    /\ IF home_dir # None
       THEN Navigate(home_dir[1])
       ELSE UNCHANGED tree_vars
    /\ UNCHANGED <<file_vars, flag_vars, startup_directory, visible_height,
                   scroll_offset, needs_resize>>

\* A 'c' that toggles the chart and asks for no redraw.
KeyCNoRedraw ==
    /\ Dispatched("c")
    /\ show_chart' = ~show_chart
    /\ UNCHANGED <<tree_vars, file_vars, use_nerd_fonts, show_recent_files,
                   recent_files_selected, startup_directory, visible_height,
                   scroll_offset, needs_resize>>

\* 'c' (lines 564-567)
KeyC ==
    /\ Dispatched("c")
    /\ show_chart' = ~show_chart
    /\ needs_resize' = TRUE
    /\ UNCHANGED <<tree_vars, file_vars, use_nerd_fonts, show_recent_files,
                   recent_files_selected, startup_directory, visible_height,
                   scroll_offset>>

\* An 'n' that also scrolls the viewer back to the top.
KeyNScrollsHome ==
    /\ Dispatched("n")
    /\ use_nerd_fonts' = ~use_nerd_fonts
    /\ needs_resize' = TRUE
    /\ scroll_offset' = 0
    /\ UNCHANGED <<tree_vars, file_vars, show_chart, show_recent_files,
                   recent_files_selected, startup_directory, visible_height>>

\* 'n' (lines 568-572)
KeyN ==
    /\ Dispatched("n")
    /\ use_nerd_fonts' = ~use_nerd_fonts
    /\ needs_resize' = TRUE
    /\ UNCHANGED <<tree_vars, file_vars, show_chart, show_recent_files,
                   recent_files_selected, startup_directory, visible_height,
                   scroll_offset>>

\* 'r' (lines 573-576)
KeyR ==
    /\ Dispatched("r")
    /\ Navigate(current_directory)
    /\ UNCHANGED <<file_vars, flag_vars, startup_directory, visible_height,
                   scroll_offset, needs_resize>>

\* An 'h' that opens the popup on the entry it was left on.
KeyHKeepsIndex ==
    /\ Dispatched("h")
    /\ show_recent_files' = TRUE
    /\ UNCHANGED <<tree_vars, file_vars, use_nerd_fonts, show_chart,
                   startup_directory, visible_height, scroll_offset,
                   needs_resize, recent_files_selected>>

\* 'h' (lines 577-581)
KeyH ==
    /\ Dispatched("h")
    /\ show_recent_files' = TRUE
    /\ recent_files_selected' = 0
    /\ UNCHANGED <<tree_vars, file_vars, use_nerd_fonts, show_chart,
                   startup_directory, visible_height, scroll_offset,
                   needs_resize>>

\* Any other key (line 582), Esc in normal mode among them
KeyOther ==
    /\ \E k \in {"Esc", "Tab"} : Dispatched(k)
    /\ UNCHANGED app_vars

----------------------------------------------------------------------------
(* The specification of the application *)

\* App::load_last_directory (lines 103-110) when last_dir.txt holds `file`
\* (an Option); PathBuf::from("") is no directory
last_directory(file) ==
    LET line == IF file = None THEN None ELSE first_line(file[1])
    IN  IF line # None /\ line[1] # <<>> /\ is_dir(path_from(line[1]))
        THEN Some(path_from(line[1]))
        ELSE None

load_last_directory == last_directory(last_dir_file)

\* App::new (lines 62-95) in the directory `cwd`, then run_app is entered.
AppNew(cwd) ==
    /\ startup_directory = cwd
    /\ current_directory = IF load_last_directory # None THEN load_last_directory[1]
                           ELSE cwd
    /\ use_nerd_fonts = TRUE
    /\ file_content = WelcomeContent
    /\ scroll_offset = 0
    /\ visible_height = InitialVisibleHeight
    /\ current_file = None
    /\ show_chart = TRUE
    /\ needs_resize = FALSE
    /\ show_recent_files = FALSE
    /\ recent_files = <<>>
    /\ recent_files_selected = 0
    /\ chart_data = <<>>
    /\ chart_bounds = InitialChartBounds
    /\ file_stats = None
    /\ \E listing \in read_dir(current_directory) :
          LET r == refresh_directory(current_directory, listing, 0, 0)
          IN  /\ entries = r.entries
              /\ selected_index = r.selected_index
              /\ file_tree_scroll = r.file_tree_scroll
    /\ pc = "draw"
    /\ key = "none"

\* The file /t does not exist and downsample_with_peaks is not under test.
NoChartInputs ==
    /\ file_text = <<>>
    /\ downsample_data = <<>>
    /\ target_points = 0
    /\ display_data = None

Init ==
    /\ fs \in {{}, MainNodes}
    /\ home_dir \in {None, Some(pZ)}
    /\ area_height \in AreaHeights
    /\ last_dir_file \in {None, Some(marker_text(pZ))}
    /\ NoChartInputs
    /\ AppNew(Root)

Next ==
    \/ Render
    \/ NonKeyEvent
    \/ FsChange
    \/ PopupClose
    \/ PopupUp
    \/ PopupDown
    \/ PopupEnter
    \/ KeyQuit
    \/ KeyUp
    \/ KeyDown
    \/ KeyEnter
    \/ KeyBackspace
    \/ KeyJ
    \/ KeyK
    \/ KeyPageUp
    \/ KeyPageDown
    \/ KeyHome
    \/ KeyEnd
    \/ KeyDot
    \/ KeyTilde
    \/ KeyC
    \/ KeyN
    \/ KeyR
    \/ KeyH
    \/ KeyOther

Spec == Init /\ [][Next]_vars

----------------------------------------------------------------------------
(* The directory listing over richer directory contents: every subset of   *)
(* ListNodes, browsed with the keys that read a directory or move the      *)
(* selection.                                                              *)

InitListing ==
    /\ fs \in SUBSET ListNodes
    /\ home_dir \in {None, Some(pb_dir)}
    /\ area_height = MaxAreaHeight
    /\ last_dir_file = None
    /\ NoChartInputs
    /\ AppNew(Root)

NextListing ==
    \/ Render
    \/ KeyUp
    \/ KeyDown
    \/ KeyBackspace
    \/ KeyDot
    \/ KeyTilde
    \/ KeyR

SpecListing == InitListing /\ [][NextListing]_vars

----------------------------------------------------------------------------
(* The scroll adjustment of render_file_tree applied to every selection,   *)
(* scroll offset and height: the loop is at its top with a listing of all  *)
(* of ListNodes and any (selected_index, file_tree_scroll).                *)

InitTree ==
    /\ fs = ListNodes
    /\ home_dir = None
    /\ area_height \in AreaHeights
    /\ last_dir_file = None
    /\ NoChartInputs
    /\ startup_directory = Root
    /\ current_directory = Root
    /\ entries = refresh_directory(Root,
                     CHOOSE listing \in read_dir(Root) : TRUE, 0, 0).entries
    /\ selected_index \in 0..(Len(entries) - 1)
    /\ file_tree_scroll \in 0..MaxTreeScroll
    /\ use_nerd_fonts = TRUE
    /\ file_content = WelcomeContent
    /\ scroll_offset = 0
    /\ visible_height = InitialVisibleHeight
    /\ current_file = None
    /\ show_chart = TRUE
    /\ needs_resize = FALSE
    /\ show_recent_files = FALSE
    /\ recent_files = <<>>
    /\ recent_files_selected = 0
    /\ chart_data = <<>>
    /\ chart_bounds = InitialChartBounds
    /\ file_stats = None
    /\ pc = "draw"
    /\ key = "none"

NextTree ==
    \/ Render
    \/ NonKeyEvent
    \/ KeyUp
    \/ KeyDown

SpecTree == InitTree /\ [][NextTree]_vars

----------------------------------------------------------------------------
(* The registry function applied once to registries of every length up to  *)
(* its capacity: the loop waits for a key in a directory of NumRecentPaths *)
(* files, and Enter opens one from the listing or from the popup.          *)

\* Registries the application can hold: the files opened in listing order,
\* starting anywhere and wrapping around, most recent first.
RecentInputs ==
    { [i \in 1..n |-> RecentNode(((k + i - 2) % NumRecentPaths) + 1)] :
          k \in 1..NumRecentPaths, n \in 0..Min(RecentCap, NumRecentPaths) }

InitRecent ==
    /\ fs = RecentNodes
    /\ home_dir = None
    /\ area_height = MaxAreaHeight
    /\ last_dir_file = None
    /\ NoChartInputs
    /\ startup_directory = Root
    /\ current_directory = Root
    /\ entries = refresh_directory(Root,
                     Some([i \in 1..NumRecentPaths |->
                              [name |-> file_name(RecentNode(i)),
                               path |-> RecentNode(i),
                               is_dir |-> FALSE]]), 0, 0).entries
    /\ selected_index \in 0..(Len(entries) - 1)
    /\ visible_height = saturating_sub(area_height, BorderRows)
    /\ file_tree_scroll = adjust_tree_scroll(selected_index, 0, visible_height)
    /\ use_nerd_fonts = TRUE
    /\ recent_files \in RecentInputs
    /\ current_file = IF recent_files = <<>> THEN None ELSE Some(recent_files[1])
    /\ file_content = IF recent_files = <<>> THEN WelcomeContent
                      ELSE loaded_content(recent_files[1])
    /\ chart_data = IF recent_files = <<>> THEN <<>>
                    ELSE loaded_chart_data(recent_files[1], <<>>)
    /\ chart_bounds = InitialChartBounds
    /\ file_stats = IF recent_files = <<>> THEN None
                    ELSE loaded_file_stats(recent_files[1], file_content, chart_data)
    /\ scroll_offset = 0
    /\ show_chart = TRUE
    /\ needs_resize = FALSE
    /\ show_recent_files \in BOOLEAN
    /\ recent_files_selected \in
          IF show_recent_files THEN 0..saturating_sub(Len(recent_files), 1) ELSE {0}
    /\ pc = "read"
    /\ key = "none"

NextRecent ==
    \/ KeyEnter
    \/ PopupEnter

SpecRecent == InitRecent /\ [][NextRecent]_vars

----------------------------------------------------------------------------
(* downsample_with_peaks applied once to every sample sequence of up to     *)
(* MaxSamples samples and every target_points up to MaxTarget.              *)

\* The samples: two x values, two y values.
SamplePoints == (0..1) \X (0..1)

SampleSeqs == UNION { [1..n -> SamplePoints] : n \in 0..MaxSamples }

\* The call of line 895
Downsample ==
    /\ display_data = None
    /\ display_data' = Some(downsample_with_peaks(downsample_data, target_points))
    /\ UNCHANGED <<env_vars, app_vars, pc, key, downsample_data, target_points>>

\* target_points - 2 (line 369) is evaluated only when
\* data.len() > target_points; the calls in which it would underflow are
\* left out.
InitDownsample ==
    /\ fs = {}
    /\ home_dir = None
    /\ area_height = MaxAreaHeight
    /\ last_dir_file = None
    /\ file_text = <<>>
    /\ downsample_data \in SampleSeqs
    /\ target_points \in 0..MaxTarget
    /\ target_points >= 2 \/ Len(downsample_data) <= target_points
    /\ display_data = None
    /\ AppNew(Root)

NextDownsample ==
    \/ Downsample

SpecDownsample == InitDownsample /\ [][NextDownsample]_vars

----------------------------------------------------------------------------
(* parse_chart_data applied to every text of the file /t: the loop waits    *)
(* for a key in a directory that holds /t and the binary file /rb, with     *)
(* nothing loaded yet or with /t loaded when it held two samples; Enter     *)
(* opens a file from the listing or from the popup.                         *)

\* What a line is made of: separators, comment markers, a digit, and a word
\* that parses to a value that is not finite.
Pieces == { <<" ">>, <<",">>, <<"#">>, <<";">>, <<"1">>, <<"i", "n", "f">> }

RECURSIVE Flatten(_)
Flatten(ps) == IF ps = <<>> THEN <<>> ELSE Head(ps) \o Flatten(Tail(ps))

\* Every line of up to MaxPieces pieces.
Lines == { Flatten(ps) : ps \in UNION { [1..k -> Pieces] : k \in 0..MaxPieces } }

\* A line that holds a sample and a line that holds none.
SampleLine == <<"1", " ", "2">>
BasicLines == { SampleLine, <<"x">> }

\* The texts of /t: nothing or a basic line, then any line, then nothing or
\* a sample line; and the empty text.
Texts ==
    {<<>>} \cup
    { pre \o <<l>> \o post :
          pre \in {<<>>} \cup { <<b>> : b \in BasicLines },
          l \in Lines,
          post \in { <<>>, <<SampleLine>> } }

\* The text /t held when it was loaded before.
PriorText == << <<"3", " ", "4">>, <<"5", " ", "6">> >>

InitParse ==
    /\ fs = {pT, RecentNode(2)}
    /\ home_dir = None
    /\ area_height = MaxAreaHeight
    /\ last_dir_file = None
    /\ file_text \in Texts
    /\ downsample_data = <<>>
    /\ target_points = 0
    /\ display_data = None
    /\ startup_directory = Root
    /\ current_directory = Root
    /\ entries = refresh_directory(Root,
                     CHOOSE listing \in read_dir(Root) : TRUE, 0, 0).entries
    /\ visible_height = saturating_sub(area_height, BorderRows)
    /\ file_tree_scroll = 0
    /\ use_nerd_fonts = TRUE
    /\ scroll_offset = 0
    /\ show_chart = TRUE
    /\ needs_resize = FALSE
    /\ recent_files_selected = 0
    /\ \/ /\ recent_files = <<>>
          /\ current_file = None
          /\ file_content = WelcomeContent
          /\ chart_data = <<>>
          /\ chart_bounds = InitialChartBounds
          /\ file_stats = None
          /\ show_recent_files = FALSE
          /\ selected_index \in 0..(Len(entries) - 1)
       \/ /\ recent_files = <<pT>>
          /\ current_file = Some(pT)
          /\ file_content = [i \in 1..Len(PriorText) |-> to_string(PriorText[i])]
          /\ chart_data = parse_chart_data(PriorText, <<>>)
          /\ chart_bounds = parse_chart_bounds(PriorText, InitialChartBounds)
          /\ file_stats = Some([size |-> text_bytes(PriorText),
                                dates |-> get_file_dates(pT),
                                lines |-> Some(Len(PriorText)),
                                points |-> Some(Len(chart_data))])
          /\ \/ show_recent_files = FALSE /\ selected_index \in 0..(Len(entries) - 1)
             \/ show_recent_files = TRUE /\ selected_index = 0
    /\ pc = "read"
    /\ key = "none"

NextParse ==
    \/ KeyEnter
    \/ PopupEnter

SpecParse == InitParse /\ [][NextParse]_vars

----------------------------------------------------------------------------
(* The chart bounds of every text of up to MaxBoundLines lines of two       *)
(* numbers each: the loop waits for a key with nothing loaded, in a         *)
(* directory that holds /t, and Enter opens it.                             *)

\* The numbers of the texts: small ones and one beyond 2 ^ Precision.
BoundTokens == { <<"0">>, <<"5">>, <<"1", "0">>, <<"8", "1", "9", "2">> }

BoundLines == { a \o <<" ">> \o b : a \in BoundTokens, b \in BoundTokens }

BoundTexts == UNION { [1..k -> BoundLines] : k \in 1..MaxBoundLines }

InitBounds ==
    /\ fs = {pT}
    /\ home_dir = None
    /\ area_height = MaxAreaHeight
    /\ last_dir_file = None
    /\ file_text \in BoundTexts
    /\ downsample_data = <<>>
    /\ target_points = 0
    /\ display_data = None
    /\ AppNew(Root)

NextBounds ==
    \/ Render
    \/ KeyEnter

SpecBounds == InitBounds /\ [][NextBounds]_vars

----------------------------------------------------------------------------
(* Quitting and starting again: the directories /Z/ and "/a\nb"/ and the   *)
(* file /a, browsed with the tree keys; after 'q' the program is started   *)
(* again in the same working directory.                                    *)

RestartNodes == {pZ, pLines, pa}

\* main() again (lines 417-445): App::new (lines 62-95) in the working
\* directory, the root, then run_app
Restart ==
    /\ pc = "done"
    /\ UNCHANGED <<env_vars, call_vars>>
    /\ startup_directory' = Root
    /\ current_directory' = IF load_last_directory # None THEN load_last_directory[1]
                            ELSE Root
    /\ use_nerd_fonts' = TRUE
    /\ file_content' = WelcomeContent
    /\ scroll_offset' = 0
    /\ visible_height' = InitialVisibleHeight
    /\ current_file' = None
    /\ show_chart' = TRUE
    /\ needs_resize' = FALSE
    /\ show_recent_files' = FALSE
    /\ recent_files' = <<>>
    /\ recent_files_selected' = 0
    /\ chart_data' = <<>>
    /\ chart_bounds' = InitialChartBounds
    /\ file_stats' = None
    /\ \E listing \in read_dir(current_directory') :
          LET r == refresh_directory(current_directory', listing, 0, 0)
          IN  /\ entries' = r.entries
              /\ selected_index' = r.selected_index
              /\ file_tree_scroll' = r.file_tree_scroll
    /\ pc' = "draw"
    /\ key' = "none"

InitRestart ==
    /\ fs \in SUBSET RestartNodes
    /\ home_dir = None
    /\ area_height = MaxAreaHeight
    /\ last_dir_file \in {None, Some(marker_text(pZ))}
    /\ NoChartInputs
    /\ AppNew(Root)

NextRestart ==
    \/ Render
    \/ KeyUp
    \/ KeyDown
    \/ KeyEnter
    \/ KeyBackspace
    \/ KeyQuit
    \/ Restart

SpecRestart == InitRestart /\ [][NextRestart]_vars

----------------------------------------------------------------------------
(* downsample_with_peaks applied once to longer sequences: a level line    *)
(* with one sample above or below it, at every position.                   *)

\* n samples at y = 1 but for the one at position p, which is at y
Spike(n, p, y) == [j \in 1..n |-> IF j = p THEN <<j, y>> ELSE <<j, 1>>]

SpikeSeqs ==
    { Spike(n, p, y) : n \in 3..MaxLongSamples, p \in 1..MaxLongSamples,
                       y \in {0, 2} }

InitBuckets ==
    /\ fs = {}
    /\ home_dir = None
    /\ area_height = MaxAreaHeight
    /\ last_dir_file = None
    /\ file_text = <<>>
    /\ downsample_data \in SpikeSeqs
    /\ target_points \in 3..MaxLongTarget
    /\ display_data = None
    /\ AppNew(Root)

NextBuckets ==
    \/ Downsample

SpecBuckets == InitBuckets /\ [][NextBuckets]_vars

----------------------------------------------------------------------------
(* Properties *)

\* A key event was handled by this step.
KeyStep == pc = "read" /\ pc' = "draw" /\ key' # "none"

\* The directory tree's window relation.
TreeWindow ==
    /\ file_tree_scroll <= selected_index
    /\ selected_index <= file_tree_scroll + visible_height - 1

\* The positions of the paths of a registry.
Paths(list) == {list[i] : i \in 1..Len(list)}
Pos(list, p) == CHOOSE i \in 1..Len(list) : list[i] = p

\* C1: while the recent-files popup is open, a key other than Esc, q, h,
\* Up, Down and Enter is ignored: handling it leaves every field of the
\* application state unchanged.
C1_PopupIgnoresOtherKeys ==
    [][(KeyStep /\ show_recent_files /\ key' \notin PopupKeys)
          => UNCHANGED app_vars]_vars

\* C2: in every reachable state the viewer's scroll_offset is at most
\* max(0, content_lines.len() - 1).
C2_ScrollOffsetWithinContent ==
    scroll_offset <= Max(0, Len(file_content) - 1)

\* C3: after each viewer scroll key (j, k, u/PageUp, d/PageDown, Home, End)
\* scroll_offset is at most max(0, content_lines.len() - visible_height);
\* the page keys move by visible_height before clamping, Home gives 0 and
\* End gives max(0, content_lines.len() - visible_height).
C3_ScrollKeysClamp ==
    [][(KeyStep /\ key' \in {"j", "k", "u", "PageUp", "d", "PageDown", "Home", "End"})
          => LET top == Max(0, Len(file_content) - visible_height)
             IN  /\ scroll_offset' <= top
                 /\ key' \in {"u", "PageUp"} =>
                       scroll_offset' = Min(Max(scroll_offset - visible_height, 0), top)
                 /\ key' \in {"d", "PageDown"} =>
                       scroll_offset' = Min(scroll_offset + visible_height, top)
                 /\ key' = "Home" => scroll_offset' = 0
                 /\ key' = "End" => scroll_offset' = top]_vars

\* This step's handler read a directory: 'r', '.', '~' with a home
\* directory, Backspace below the root, Enter on a directory entry.
NavigationStep ==
    /\ KeyStep
    /\ \/ key' = "."
       \/ key' = "~" /\ home_dir # None
       \/ key' = "Backspace" /\ parent(current_directory) # None
       \/ /\ key' = "Enter"
          /\ ~show_recent_files
          /\ selected_index < Len(entries)
          /\ entries[selected_index + 1].is_dir

\* C4 as stated: 'r' keeps selected_index and file_tree_scroll when they
\* are within the new listing and clamps them to it otherwise, while
\* navigation into a directory resets both to 0.
C4_RefreshKeepsSelection ==
    [][/\ (KeyStep /\ key' = "r") =>
             /\ selected_index' = Min(selected_index, saturating_sub(Len(entries'), 1))
             /\ file_tree_scroll' = Min(file_tree_scroll, saturating_sub(Len(entries'), 1))
       /\ NavigationStep => (selected_index' = 0 /\ file_tree_scroll' = 0)]_vars

\* C4 amended: 'r' resets selected_index and file_tree_scroll to 0 whatever
\* the new listing holds, exactly as navigation into a directory does.
C4_RefreshResetsSelection ==
    [][((KeyStep /\ key' = "r") \/ NavigationStep)
          => (selected_index' = 0 /\ file_tree_scroll' = 0)]_vars

\* 'r' has been handled in a listing of at least two entries.
C4_Witness ==
    pc = "draw" /\ key = "r" /\ Len(entries) >= 2 /\ selected_index = 0

\* C5: with a non-empty listing 0 <= selected_index < entries.len(); Up at
\* index 0 and Down at the last index leave the selection where it is, and
\* Up and Down on an empty listing change nothing.
C5_SelectionInBounds ==
    /\ [](entries # <<>> => (selected_index >= 0 /\ selected_index < Len(entries)))
    /\ [][(KeyStep /\ ~show_recent_files /\ key' \in {"Up", "Down"}) =>
             /\ (key' = "Up" /\ selected_index = 0) => selected_index' = 0
             /\ (key' = "Down" /\ selected_index = Len(entries) - 1)
                   => selected_index' = selected_index
             /\ entries = <<>> => UNCHANGED app_vars]_vars

\* Down has been handled at the last index of a listing of at least two
\* entries whose window shows one row: the window is still on the last row.
C5_Witness ==
    /\ pc = "draw" /\ key = "Down" /\ ~show_recent_files
    /\ Len(entries) >= 2
    /\ selected_index = Len(entries) - 1
    /\ file_tree_scroll = selected_index
    /\ visible_height = 1

\* C6: after every directory read the ".." entry is at index 0 exactly when
\* the current path has a parent, and the entries after it are directories
\* first, each group non-decreasing under case-insensitive name comparison.
C6_ListingSorted ==
    LET up == parent(current_directory) # None
        rest == IF up THEN Tail(entries) ELSE entries
    IN  /\ up <=> (entries # <<>> /\ entries[1].name = DotDot)
        /\ \A i \in 1..Len(rest) : rest[i].name # DotDot
        /\ \A i, j \in 1..Len(rest) : i < j =>
              /\ rest[j].is_dir => rest[i].is_dir
              /\ rest[i].is_dir = rest[j].is_dir =>
                    str_cmp(to_lowercase(rest[i].name), to_lowercase(rest[j].name))
                        # "Greater"

\* 'r' has read a directory holding both directories and all three files.
C6_Witness ==
    /\ pc = "draw" /\ key = "r"
    /\ Len(entries) = Cardinality(ListNodes)

\* C7: for a non-empty listing and visible_height >= 1 the scroll
\* adjustment leaves scroll <= selected <= scroll + visible_height - 1: it
\* snaps the scroll to the selection when the selection is above the
\* window, to selected - visible_height + 1 when it is below, and leaves
\* it unchanged when the selection is visible.
C7_AdjustmentShowsSelection ==
    [][(pc = "draw" /\ pc' = "read" /\ entries # <<>> /\ visible_height' >= 1) =>
          /\ file_tree_scroll' <= selected_index
          /\ selected_index <= file_tree_scroll' + visible_height' - 1
          /\ selected_index < file_tree_scroll => file_tree_scroll' = selected_index
          /\ selected_index >= file_tree_scroll + visible_height'
                => file_tree_scroll' = selected_index - visible_height' + 1
          /\ (file_tree_scroll <= selected_index
                /\ selected_index < file_tree_scroll + visible_height')
                => file_tree_scroll' = file_tree_scroll]_vars

\* The adjustment has snapped the window down to a selection below it.
C7_Witness ==
    /\ pc = "read"
    /\ file_tree_scroll >= 1
    /\ visible_height >= 2
    /\ selected_index = file_tree_scroll + visible_height - 1

\* C8 as stated: the window relation holds in the state the Up or Down
\* handler leaves behind, before the next render pass.
C8_WindowAfterHandler ==
    (pc = "draw" /\ key \in {"Up", "Down"} /\ ~show_recent_files /\ entries # <<>>)
        => TreeWindow

\* C8 amended: the window relation holds once the render pass that follows
\* the key event has run, that is whenever the loop waits for an event.
C8_WindowAfterRender ==
    (pc = "read" /\ entries # <<>>) => TreeWindow

\* The loop waits for an event with the window scrolled down to the
\* selection.
C8_Witness ==
    /\ pc = "read"
    /\ file_tree_scroll >= 1
    /\ selected_index = file_tree_scroll + visible_height - 1

\* C9: the registry holds at most 10 paths and no path twice.
C9_RegistryBounded ==
    /\ Len(recent_files) <= RecentCap
    /\ \A i, j \in 1..Len(recent_files) :
          recent_files[i] = recent_files[j] => i = j

\* A file has been opened and the registry is full.
C9_Witness ==
    pc = "draw" /\ key = "Enter" /\ Len(recent_files) = RecentCap

\* The path the Enter of this step opens, as an Option.
OpenedPath ==
    IF show_recent_files
    THEN IF recent_files # <<>> /\ recent_files_selected < Len(recent_files)
         THEN Some(recent_files[recent_files_selected + 1]) ELSE None
    ELSE IF selected_index < Len(entries) /\ ~entries[selected_index + 1].is_dir
         THEN Some(entries[selected_index + 1].path) ELSE None

\* C10: recording p in registry L gives the first 10 of p followed by L
\* without p: p is at the front and occurs once, the other paths keep their
\* order, and a path is dropped only when the registry is full and then it
\* is the least recently recorded one.
C10_RecordMovesToFront ==
    [][(KeyStep /\ key' = "Enter" /\ OpenedPath # None) =>
          LET p == OpenedPath[1]
              old == recent_files
              new == recent_files'
          IN  /\ new # <<>> /\ new[1] = p
              /\ \A i \in 2..Len(new) : new[i] # p /\ new[i] \in Paths(old)
              /\ \A i, j \in 2..Len(new) :
                    i < j => Pos(old, new[i]) < Pos(old, new[j])
              /\ Len(new) = Min(RecentCap, Cardinality(Paths(old) \cup {p}))
              /\ \A q \in Paths(old) \ Paths(new) :
                    \A i \in 2..Len(new) : Pos(old, new[i]) < Pos(old, q)]_vars

\* Enter has opened a file from the listing and the registry is full with
\* that file at its front.
C10_Witness ==
    /\ pc = "draw" /\ key = "Enter" /\ ~show_recent_files
    /\ Len(recent_files) = RecentCap
    /\ selected_index < Len(entries)
    /\ recent_files[1] = entries[selected_index + 1].path

----------------------------------------------------------------------------
(* The loaded file and the registry *)

\* C11: every file open records the path in the registry: in every
\* reachable state current_file is None exactly when the registry is empty,
\* and otherwise it is the registry's first element.
C11_LoadedFileHeadsRegistry ==
    /\ (current_file = None) <=> (recent_files = <<>>)
    /\ (recent_files # <<>>) => (current_file = Some(recent_files[1]))

\* Two files have been opened, the second by Enter, and the loaded file
\* heads the registry.
C11_Witness ==
    /\ key = "Enter"
    /\ Len(recent_files) >= 2
    /\ current_file = Some(recent_files[1])

----------------------------------------------------------------------------
(* Popup mode *)

\* A key event with this code was handled by this step while the popup was
\* open.
PopupKeyStep(codes) == pc = "read" /\ show_recent_files /\ key' \in codes

\* C12: while the popup is open, each of Esc, q and h closes the popup and
\* changes nothing else: the loop goes on (q does not end it), the
\* last-directory marker is not written, and the popup is not re-opened.
C12_PopupCloseKeys ==
    [][PopupKeyStep({"Esc", "q", "h"}) =>
          /\ show_recent_files' = FALSE
          /\ pc' = "draw"
          /\ UNCHANGED <<env_vars, call_vars, current_directory, startup_directory,
                         entries, use_nerd_fonts, selected_index, file_tree_scroll,
                         file_content, scroll_offset, visible_height, current_file,
                         show_chart, needs_resize, recent_files,
                         recent_files_selected, chart_data, chart_bounds,
                   file_stats>>]_vars

\* 'q' was pressed with the popup open: the popup is closed and the loop is
\* back at its top, not ended.
C12_Witness ==
    /\ key = "q"
    /\ pc = "draw"
    /\ ~show_recent_files
    /\ recent_files # <<>>

\* C13: while the popup is open, Up and Down change only
\* recent_files_selected: Down maps i to (i + 1) mod len, Up maps 0 to
\* len - 1 and i > 0 to i - 1, and both change nothing on an empty registry.
C13_PopupSelectionWraps ==
    [][PopupKeyStep({"Up", "Down"}) =>
          /\ UNCHANGED <<env_vars, call_vars, current_directory, startup_directory,
                         entries, use_nerd_fonts, selected_index, file_tree_scroll,
                         file_content, scroll_offset, visible_height, current_file,
                         show_chart, needs_resize, show_recent_files, recent_files,
                         chart_data, chart_bounds,
                   file_stats>>
          /\ (recent_files = <<>>) => UNCHANGED recent_files_selected
          /\ (recent_files # <<>> /\ key' = "Down") =>
                 recent_files_selected' = (recent_files_selected + 1) % Len(recent_files)
          /\ (recent_files # <<>> /\ key' = "Up" /\ recent_files_selected = 0) =>
                 recent_files_selected' = Len(recent_files) - 1
          /\ (recent_files # <<>> /\ key' = "Up" /\ recent_files_selected > 0) =>
                 recent_files_selected' = recent_files_selected - 1]_vars

\* Up was pressed on the first of at least two registry entries: the popup
\* selection is on the last one.
C13_Witness ==
    /\ key = "Up"
    /\ show_recent_files
    /\ Len(recent_files) >= 2
    /\ recent_files_selected = Len(recent_files) - 1

\* C14: with the popup open and a non-empty registry, Enter loads the
\* registry entry at recent_files_selected (it becomes the loaded file and
\* moves to the front of the registry, the others keeping their order),
\* closes the popup and leaves the directory tree alone; with an empty
\* registry Enter changes nothing.
C14_PopupEnterLoads ==
    [][PopupKeyStep({"Enter"}) =>
          IF recent_files # <<>>
          THEN LET p == recent_files[recent_files_selected + 1]
               IN  /\ current_file' = Some(p)
                   /\ recent_files' =
                         <<p>> \o SubSeq(recent_files, 1, recent_files_selected)
                             \o SubSeq(recent_files, recent_files_selected + 2,
                                       Len(recent_files))
                   /\ show_recent_files' = FALSE
                   /\ UNCHANGED <<current_directory, entries, selected_index,
                                  file_tree_scroll>>
          ELSE UNCHANGED <<env_vars, call_vars, app_vars>>]_vars

\* Enter in the popup loaded a registry entry that was not at the front and
\* is not the entry selected in the directory tree.
C14_Witness ==
    /\ key = "Enter"
    /\ ~show_recent_files
    /\ Len(recent_files) >= 3
    /\ current_file = Some(recent_files[1])
    /\ entries[selected_index + 1].path # recent_files[1]
    /\ current_directory = Root

----------------------------------------------------------------------------
(* Quitting *)

\* C15 as stated: from every reachable state, 'q' in Normal mode ends the
\* loop after writing the current directory as the last-directory marker.
C15_QuitWritesMarker ==
    [][(pc = "read" /\ ~show_recent_files /\ key' = "q") =>
          /\ pc' = "done"
          /\ last_dir_file' = Some(marker_text(current_directory))]_vars

\* C15 as the code has it: 'q' in Normal mode always ends the loop; the
\* marker then names the current directory or, when the write failed, is
\* what it was or holds the part that was written.  'q' in the popup closes the popup and the render pass that
\* follows keeps it closed, so a second 'q' ends the loop.
C15_QuitTerminates ==
    [][/\ (pc = "read" /\ ~show_recent_files /\ key' = "q") =>
             /\ pc' = "done"
             /\ \/ UNCHANGED last_dir_file
                \/ \E text \in Prefixes(marker_text(current_directory)) :
                      last_dir_file' = Some(text)
             /\ UNCHANGED app_vars
       /\ (pc = "read" /\ show_recent_files /\ key' = "q") =>
             /\ pc' = "draw"
             /\ ~show_recent_files'
       /\ (pc = "draw") => (pc' = "read" /\ UNCHANGED show_recent_files)
       /\ (pc = "done") => UNCHANGED vars]_vars

\* The loop has ended on 'q' in a directory below the root, and the marker
\* names that directory.
C15_Witness ==
    /\ pc = "done"
    /\ key = "q"
    /\ current_directory # Root
    /\ last_dir_file = Some(marker_text(current_directory))

----------------------------------------------------------------------------
(* Downsampling *)

\* The samples of `data` at the positions in S, in ascending position.
Pick(data, S) ==
    LET F[i \in 0..Len(data)] ==
            IF i = 0 THEN <<>>
            ELSE IF i \in S THEN Append(F[i - 1], data[i]) ELSE F[i - 1]
    IN  F[Len(data)]

\* C16: for every sample sequence and every target_points with
\* data.len() <= target_points (empty and one-element sequences included),
\* downsample_with_peaks returns the input unchanged.
C16_FastPathReturnsInput ==
    (display_data # None /\ Len(downsample_data) <= target_points) =>
        display_data[1] = downsample_data

\* The call returned with as many samples as target_points, three or more.
C16_Witness ==
    /\ display_data # None
    /\ Len(downsample_data) = target_points
    /\ target_points >= 3
    /\ display_data[1] = downsample_data

\* C17: for every non-empty input and every target_points >= 2 the result
\* is a subsequence of the input taken at strictly increasing positions,
\* its first element the first input sample and its last element the last
\* input sample.
C17_ResultIsOrderedSubsequence ==
    (display_data # None /\ downsample_data # <<>> /\ target_points >= 2) =>
        \E S \in SUBSET (1..Len(downsample_data)) :
            /\ 1 \in S
            /\ Len(downsample_data) \in S
            /\ display_data[1] = Pick(downsample_data, S)

\* Six samples were reduced to four: the two ends and the minimum and the
\* maximum of the one bucket between them.
C17_Witness ==
    /\ display_data # None
    /\ Len(downsample_data) = 6
    /\ target_points = 3
    /\ Len(display_data[1]) = 4

\* C18: for every input sequence and every target_points >= 2 the result
\* has at most target_points + 1 samples.
C18_ResultLengthBounded ==
    (display_data # None /\ target_points >= 2) =>
        Len(display_data[1]) <= target_points + 1

----------------------------------------------------------------------------
(* Chart samples *)

IsBlankChar(c) == c \in {" ", "\t"}
IsSeparator(c) == IsBlankChar(c) \/ c = ","

\* The line is blank, or its first non-blank character is '#' or ';'.
IsBlankOrComment(l) ==
    LET nonblank == {i \in 1..Len(l) : ~IsBlankChar(l[i])}
    IN  \/ nonblank = {}
        \/ l[CHOOSE i \in nonblank : \A j \in nonblank : i <= j] \in {"#", ";"}

\* The tokens of a line: its maximal runs of characters that are not
\* separators, as <<first, last>> positions.
TokenSpans(l) ==
    { sp \in (1..Len(l)) \X (1..Len(l)) :
         /\ sp[1] <= sp[2]
         /\ \A k \in sp[1]..sp[2] : ~IsSeparator(l[k])
         /\ sp[1] = 1 \/ IsSeparator(l[sp[1] - 1])
         /\ sp[2] = Len(l) \/ IsSeparator(l[sp[2] + 1]) }

\* The k-th token of a line that has at least k tokens.
Token(l, k) ==
    LET sp == CHOOSE t \in TokenSpans(l) :
                  Cardinality({q \in TokenSpans(l) : q[1] < t[1]}) = k - 1
    IN  SubSeq(l, sp[1], sp[2])

\* The token is a finite number.
IsFiniteNumber(tok) == \A i \in 1..Len(tok) : IsDigit(tok[i])

\* The line is neither blank nor a comment, has at least two tokens, and
\* its first two tokens are finite numbers.
IsSampleLine(l) ==
    /\ ~IsBlankOrComment(l)
    /\ Cardinality(TokenSpans(l)) >= 2
    /\ IsFiniteNumber(Token(l, 1))
    /\ IsFiniteNumber(Token(l, 2))

\* The samples of the sample lines of a text, in line order.
ExpectedSamples(content) ==
    LET F[i \in 0..Len(content)] ==
            IF i = 0 THEN <<>>
            ELSE IF IsSampleLine(content[i])
                 THEN Append(F[i - 1], <<decimal(Token(content[i], 1)),
                                         decimal(Token(content[i], 2))>>)
                 ELSE F[i - 1]
    IN  F[Len(content)]

\* C19: after any file open scroll_offset is 0 and chart_data is either
\* empty or holds at least 2 samples, all of them from the file just
\* opened: a binary file, or a text with fewer than 2 sample lines, leaves
\* nothing of the previous file's samples behind.
C19_OpenReplacesChartData ==
    (key = "Enter" /\ current_file # None) =>
        /\ scroll_offset = 0
        /\ LET opened == current_file[1]
               valid == IF opened \in BinaryNodes THEN <<>>
                        ELSE ExpectedSamples(FileText(opened))
           IN  chart_data = IF Len(valid) >= 2 THEN valid ELSE <<>>

\* /t was loaded with two samples and then a file without two sample lines
\* was opened: no samples are left.
C19_Witness ==
    /\ key = "Enter"
    /\ current_file # None
    /\ chart_data = <<>>
    /\ Len(recent_files) = 2
    /\ recent_files[2] = pT

\* C20: for every sequence of lines the candidate samples are exactly the
\* lines that are neither blank nor comments, have at least two tokens and
\* whose first two tokens parse to finite numbers, in line order; a
\* rejected line neither discards nor reorders the samples of other lines.
C20_CandidatesAreSampleLines ==
    /\ parse_lines(file_text) = ExpectedSamples(file_text)
    /\ (key = "Enter" /\ current_file = Some(pT) /\ Len(ExpectedSamples(file_text)) >= 2)
          => chart_data = ExpectedSamples(file_text)

\* /t was opened with a rejected line (its second number is not finite)
\* between two sample lines, and both samples are in chart_data.
C20_Witness ==
    /\ key = "Enter"
    /\ current_file = Some(pT)
    /\ Len(file_text) = 3
    /\ file_text[2] = <<"1", " ", "i", "n", "f">>
    /\ Len(chart_data) = 2

----------------------------------------------------------------------------
(* Chart bounds *)

\* The bounds of one axis enclose the values v(sample) of the samples, the
\* lower bound strictly below the upper one.
AxisEncloses(bounds, axis) ==
    /\ bounds[1] < bounds[2]
    /\ \A i \in 1..Len(chart_data) :
          /\ bounds[1] <= to_f64(chart_data[i][axis])
          /\ to_f64(chart_data[i][axis]) <= bounds[2]

\* C21: for every accepted sample set each axis' bounds are the extremes
\* widened by 5% of the range, or by 1 when the extremes are equal; so
\* whenever chart samples are present the lower bound is strictly below the
\* upper bound and every sample lies within the bounds.
C21_BoundsEncloseSamples ==
    (chart_data # <<>>) =>
        /\ AxisEncloses(chart_bounds[1], 1)
        /\ AxisEncloses(chart_bounds[2], 2)

----------------------------------------------------------------------------
(* The redraw flag *)

\* The key being handled is an Enter that reaches open_file: in the popup
\* on a registry entry, otherwise on a tree entry that is not a directory.
EnterLoadsFile ==
    /\ KeyStep
    /\ key' = "Enter"
    /\ IF show_recent_files
       THEN recent_files # <<>> /\ recent_files_selected < Len(recent_files)
       ELSE /\ selected_index < Len(entries)
            /\ ~entries[selected_index + 1].is_dir

\* C22: every key event that changes scroll_offset, toggles the chart or
\* loads a file leaves needs_resize set; the render pass that follows resets
\* it; so needs_resize is false whenever the loop waits for an event.
C22_RedrawFlag ==
    /\ [](pc = "read" => ~needs_resize)
    /\ [][ /\ ( /\ KeyStep
                /\ \/ scroll_offset' # scroll_offset
                   \/ show_chart' # show_chart
                   \/ EnterLoadsFile ) => needs_resize'
           /\ (pc = "draw" /\ pc' = "read") => ~needs_resize' ]_vars

\* C22 witness: 'c' has just hidden the chart and the redraw is pending.
C22_Witness ==
    pc = "draw" /\ key = "c" /\ ~show_chart /\ needs_resize

----------------------------------------------------------------------------
(* The presentation flags *)

\* C23: 'c', 'n' and 'h' change no part of the data model (directory,
\* entries, selection, loaded file, content, scroll_offset, stats, samples,
\* bounds, registry); 'c' and 'n' negate their flag, which nothing but a key
\* changes, so that pressing either twice restores it.
C23_FlagsLeaveData ==
    [][ /\ (KeyStep /\ key' \in {"c", "n", "h"}) =>
              UNCHANGED <<current_directory, entries, selected_index,
                          current_file, file_content, scroll_offset,
                          file_stats, chart_data, chart_bounds, recent_files>>
        /\ (KeyStep /\ key' = "c") =>
              (show_chart' = ~show_chart /\ UNCHANGED use_nerd_fonts)
        /\ (KeyStep /\ key' = "n") =>
              (use_nerd_fonts' = ~use_nerd_fonts /\ UNCHANGED show_chart)
        /\ (~KeyStep \/ key' \notin {"c", "n"}) =>
              UNCHANGED <<show_chart, use_nerd_fonts>> ]_vars

\* C23 witness: 'n' has switched the icons off over a scrolled file with
\* chart samples.
C23_Witness ==
    /\ pc = "draw"
    /\ key = "n"
    /\ ~use_nerd_fonts
    /\ scroll_offset > 0
    /\ chart_data # <<>>

----------------------------------------------------------------------------
(* The content of the viewer *)

\* C25: file_content is never empty; opening an empty file gives the one
\* line "(empty file)", a line count of 1 and no point count; opening a file
\* that cannot be read as text gives one placeholder line and stats with
\* neither line count nor point count.
C25_ContentNeverEmpty ==
    /\ [](Len(file_content) >= 1)
    /\ [][ EnterLoadsFile =>
             LET p == current_file'[1]
                 readable == p \in fs /\ p \notin DirNodes /\ p \notin BinaryNodes
             IN  /\ (readable /\ FileText(p) = <<>>) =>
                       /\ file_content' = <<"(empty file)">>
                       /\ file_stats'[1].lines = Some(1)
                       /\ file_stats'[1].points = None
                 /\ ~readable =>
                       /\ file_content' = <<"Binary file - no text content to display">>
                       /\ file_stats'[1].lines = None
                       /\ file_stats'[1].points = None ]_vars

\* C25 witness: the empty file /B is the loaded file.
C25_Witness ==
    /\ current_file = Some(pB)
    /\ file_content = <<"(empty file)">>
    /\ file_stats # None
    /\ file_stats[1].lines = Some(1)

----------------------------------------------------------------------------
(* The popup's selection *)

\* C30: while the popup is open over a non-empty registry,
\* recent_files_selected is below the registry's length; the registry's
\* length does not change while the popup stays open; 'h' opens the popup
\* with recent_files_selected = 0.
C30_PopupIndexInRange ==
    /\ []((show_recent_files /\ recent_files # <<>>) =>
             recent_files_selected < Len(recent_files))
    /\ [][ /\ (show_recent_files /\ show_recent_files') =>
                 Len(recent_files') = Len(recent_files)
           /\ (KeyStep /\ ~show_recent_files /\ key' = "h") =>
                 (show_recent_files' /\ recent_files_selected' = 0) ]_vars

\* C30 witness: 'h' has reopened the popup over two entries.
C30_Witness ==
    /\ show_recent_files
    /\ key = "h"
    /\ Len(recent_files) = 2
    /\ recent_files_selected = 0

----------------------------------------------------------------------------
(* Buckets *)

\* The call has returned and took the bucketing path with a target of
\* three or more.
Bucketed ==
    /\ display_data # None
    /\ target_points >= 3
    /\ Len(downsample_data) > target_points

\* The indices the loop visits in bucket i of n samples, bucket_size
\* being `size`
BucketIndices(i, n, size) ==
    bucket_start(i, size) .. (bucket_end(i, n, size) - 1)

\* The index sets of the buckets i, i + 1, ... of the call, in order
RECURSIVE BucketsFrom(_, _, _, _)
BucketsFrom(i, n, target, size) ==
    IF i > target - 2 THEN <<>>
    ELSE <<BucketIndices(i, n, size)>> \o BucketsFrom(i + 1, n, target, size)

\* The index sets of the buckets of the call
Buckets ==
    BucketsFrom(1, Len(downsample_data), target_points,
                bucket_size(Len(downsample_data), target_points))

\* The sets bucket[1], bucket[2], ... lie one behind the other without a
\* gap, are pairwise disjoint, together are exactly 1..n-2, and differ in
\* size by at most one.
PartitionInterior(bucket, n) ==
    /\ \A i \in 1..(Len(bucket) - 1) :
          \A a \in bucket[i], b \in bucket[i + 1] :
              a < b /\ ((a + 1) .. (b - 1)) \subseteq (bucket[i] \cup bucket[i + 1])
    /\ \A i, j \in 1..Len(bucket) :
          i # j => bucket[i] \cap bucket[j] = {}
    /\ UNION { bucket[i] : i \in 1..Len(bucket) } = 1..(n - 2)
    /\ \A i, j \in 1..Len(bucket) :
          Cardinality(bucket[i]) - Cardinality(bucket[j]) <= 1

\* C26: for n > t >= 3 the t - 2 buckets are contiguous and pairwise
\* disjoint, together cover exactly the interior indices 1..n-2, and their
\* sizes differ by at most one.
C26_BucketsPartitionInterior ==
    Bucketed => PartitionInterior(Buckets, Len(downsample_data))

\* The lowest index of S whose sample has the least (sign = 1) or the
\* greatest (sign = -1) y
Extreme(data, S, sign) ==
    CHOOSE j \in S :
        /\ \A k \in S : sign * data[j + 1][2] <= sign * data[k + 1][2]
        /\ \A k \in S : data[k + 1][2] = data[j + 1][2] => j <= k

\* What the claim lets a bucket with the indices S emit
ExpectedOfBucket(data, S) ==
    LET lo == Extreme(data, S, 1)
        hi == Extreme(data, S, -1)
    IN  IF S = {} THEN <<>>
        ELSE IF lo = hi THEN <<data[lo + 1]>>
        ELSE <<data[Min(lo, hi) + 1], data[Max(lo, hi) + 1]>>

\* What the claim lets the buckets of the sequence `buckets` emit from the
\* i-th on
RECURSIVE ExpectedFrom(_, _)
ExpectedFrom(buckets, i) ==
    IF i > Len(buckets) THEN <<>>
    ELSE ExpectedOfBucket(downsample_data, buckets[i]) \o ExpectedFrom(buckets, i + 1)

\* C27: every bucket that is not skipped emits its minimum-y sample and its
\* maximum-y sample, the lowest index among ties, in ascending index order:
\* one point when the two are the same index, two otherwise, and no other
\* point of the bucket.
C27_BucketEmitsExtremes ==
    Bucketed =>
        display_data[1] = <<downsample_data[1]>> \o ExpectedFrom(Buckets, 1)
                          \o <<downsample_data[Len(downsample_data)]>>

\* C27 witness: the one bucket of three samples, the first above two of
\* equal y, emitted its maximum and then the first of the two.
C27_Witness ==
    /\ Bucketed
    /\ downsample_data = Spike(5, 2, 2)
    /\ target_points = 3
    /\ display_data[1] = << <<1, 1>>, <<2, 2>>, <<3, 1>>, <<5, 1>> >>

C29_GlobalExtremesKept ==
    (display_data # None /\ target_points >= 3 /\ downsample_data # <<>>) =>
        \A sign \in {1, -1} :
            \E r \in 1..Len(display_data[1]) :
                \A k \in 1..Len(downsample_data) :
                    sign * display_data[1][r][2] <= sign * downsample_data[k][2]

----------------------------------------------------------------------------
(* The last directory *)

\* The program starts: the loop of the run before has ended.
RestartStep == pc = "done" /\ pc' = "draw"

\* The path the marker file names, None when the file is missing or empty
MarkerPath ==
    IF last_dir_file = None \/ first_line(last_dir_file[1]) = None THEN None
    ELSE Some(path_from(first_line(last_dir_file[1])[1]))

\* C24: when a run has quit with q in a directory D, the marker has been
\* written and D is still a directory at the next start, the next run
\* starts in D; when the marker is missing or names a path that is not a
\* directory, the next run starts in the working directory.
C24_RestartInLastDirectory ==
    [][RestartStep =>
          /\ ( /\ key = "q"
               /\ last_dir_file = Some(marker_text(current_directory))
               /\ is_dir(current_directory) ) =>
                 current_directory' = current_directory
          /\ (MarkerPath = None \/ ~is_dir(MarkerPath[1])) =>
                 current_directory' = startup_directory']_vars

====
